---- MODULE Spec2Model ----
(***************************************************************************)
(* The prescription-history store (lib/db-history) and its /api/history    *)
(* handlers, the MongoDB connection they share (lib/mongodb), the health   *)
(* check, the text utilities (lib/utils, the abbreviation table) and the   *)
(* /api/tts handler.                                                       *)
(*                                                                         *)
(* A JavaScript string is a sequence of one-character strings, a document  *)
(* or object is a record whose field set may vary (a spread {...a, ...b}   *)
(* is Merge(a, b)), and the MongoDB collection is the sequence of its      *)
(* documents in natural (insertion) order.  The collection                 *)
(* follows the documented contract of the driver calls the code makes:     *)
(* insertOne stores the document under a fresh ObjectId, find/sort/limit/  *)
(* skip select, order and cut, limit(0) means "no limit", new ObjectId(s)  *)
(* throws unless s is 24 hexadecimal digits, and a key whose value is      *)
(* undefined is not written by $set (the code's own comments: "Remove id   *)
(* from update data").                                                     *)
(***************************************************************************)
EXTENDS Integers, Sequences, FiniteSets, TLC

VARIABLES
    store,      \* the documents of the "history" collection, in natural order
    nextId,     \* the next ObjectId the collection hands out
    now,        \* the clock
    last,       \* the call the client made and its answer
    input,      \* the argument a utility function is applied to
    client,     \* lib/mongodb's module variable client (0 is null)
    db,         \* lib/mongodb's module variable db (0 is null)
    clients,    \* every MongoClient constructed so far, with its state
    pc          \* the position of each request that is in flight

\* what the store operations and the /api/history handlers never touch
otherVars == <<input, client, db, clients, pc>>

vars == <<store, nextId, now, last, input, client, db, clients, pc>>

----------------------------------------------------------------------------
(* Bounds of the exploration *)

\* ObjectIds the collection hands out in one run (inserts ever made)
MaxIds == 2
\* last instant of the clock
MaxTime == 1

----------------------------------------------------------------------------
(* Strings *)

UpperCase == <<"A", "B", "C", "D", "E", "F", "G", "H", "I", "J", "K", "L", "M",
               "N", "O", "P", "Q", "R", "S", "T", "U", "V", "W", "X", "Y", "Z">>
LowerCase == <<"a", "b", "c", "d", "e", "f", "g", "h", "i", "j", "k", "l", "m",
               "n", "o", "p", "q", "r", "s", "t", "u", "v", "w", "x", "y", "z">>
Digits == <<"0", "1", "2", "3", "4", "5", "6", "7", "8", "9">>
HexDigits == <<"0", "1", "2", "3", "4", "5", "6", "7", "8", "9",
               "a", "b", "c", "d", "e", "f">>

Range(s) == {s[i] : i \in DOMAIN s}

UpperCaseSet == Range(UpperCase)

LowerCaseOf ==
    [c \in UpperCaseSet |-> LowerCase[CHOOSE i \in DOMAIN UpperCase : UpperCase[i] = c]]

\* String.prototype.toLowerCase on one character (the "i" flag of a regex)
ToLowerCase(c) == IF c \in UpperCaseSet THEN LowerCaseOf[c] ELSE c

Lower(s) == [i \in DOMAIN s |-> ToLowerCase(s[i])]

\* \s of a regular expression, and what trim() removes
Whitespace == {" ", "\t", "\n"}

\* \w of a regular expression
WordChars == Range(UpperCase) \cup Range(LowerCase) \cup Range(Digits) \cup {"_"}

\* the text has pat as a substring, compared case-insensitively
ContainsCI(text, pat) ==
    \E i \in 0..(Len(text) - Len(pat)) :
        \A j \in 1..Len(pat) : ToLowerCase(text[i + j]) = ToLowerCase(pat[j])

Drop(s, n) == SubSeq(s, n + 1, Len(s))

RECURSIVE TrimStart(_)
TrimStart(s) ==
    IF s # <<>> /\ Head(s) \in Whitespace THEN TrimStart(Tail(s)) ELSE s

RECURSIVE TrimEnd(_)
TrimEnd(s) ==
    IF s # <<>> /\ s[Len(s)] \in Whitespace
    THEN TrimEnd(SubSeq(s, 1, Len(s) - 1))
    ELSE s

Trim(s) == TrimEnd(TrimStart(s))

----------------------------------------------------------------------------
(* lib/utils: sanitizeInput, validateTextInput *)

\* str.replace(/<[^>]+>/g, ""): at a "<" followed by at least one character
\* other than ">" and then, later, a ">", everything up to the first ">" goes
RECURSIVE RemoveTags(_)
RemoveTags(s) ==
    IF s = <<>> THEN <<>>
    ELSE IF /\ Head(s) = "<"
            /\ Len(s) >= 3
            /\ s[2] # ">"
            /\ \E j \in 3..Len(s) : s[j] = ">"
         THEN LET close == CHOOSE j \in 3..Len(s) :
                               /\ s[j] = ">"
                               /\ \A k \in 3..(j - 1) : s[k] # ">"
              IN RemoveTags(Drop(s, close))
         ELSE <<Head(s)>> \o RemoveTags(Tail(s))

DangerousChars == {"<", ">", "'", "\"", "&"}

\* str.replace(/[<>'"&]/g, "")
RemoveDangerous(s) == SelectSeq(s, LAMBDA c : c \notin DangerousChars)

\* a variant that trims first and strips afterwards
sanitizeInput_TrimsFirst(str) ==
    IF str = <<>> THEN <<>>
    ELSE RemoveDangerous(RemoveTags(Trim(str)))

sanitizeInput(str) ==
    IF str = <<>> THEN <<>>
    ELSE Trim(RemoveDangerous(RemoveTags(str)))

DefaultMaxLength == 10000
QueryMaxLength == 100
ShortTextLength == 10

\* /on\w+\s*=/i
MatchesEventHandler(text) ==
    \E i \in 1..Len(text) :
      /\ i + 3 <= Len(text)
      /\ ToLowerCase(text[i]) = "o"
      /\ ToLowerCase(text[i + 1]) = "n"
      /\ \E j \in (i + 2)..Len(text) :
           /\ \A k \in (i + 2)..j : text[k] \in WordChars
           /\ \E e \in (j + 1)..Len(text) :
                /\ text[e] = "="
                /\ \A k \in (j + 1)..(e - 1) : text[k] \in Whitespace

Suspicious(text) ==
    \/ ContainsCI(text, <<"<", "s", "c", "r", "i", "p", "t">>)
    \/ ContainsCI(text, <<"j", "a", "v", "a", "s", "c", "r", "i", "p", "t", ":">>)
    \/ MatchesEventHandler(text)
    \/ ContainsCI(text, <<"d", "a", "t", "a", ":", "t", "e", "x", "t", "/",
                          "h", "t", "m", "l">>)

validateTextInput(text, maxLength) ==
    IF text = <<>>
    THEN [isValid |-> FALSE, errors |-> <<"required">>]
    ELSE LET errors ==
                 (IF Len(text) > maxLength THEN <<"too long">> ELSE <<>>)
                 \o (IF Suspicious(text) THEN <<"harmful">> ELSE <<>>)
             warnings ==
                 IF Len(text) < ShortTextLength THEN <<"short">> ELSE <<>>
         IN [isValid |-> errors = <<>>, errors |-> errors, warnings |-> warnings]

----------------------------------------------------------------------------
(* Objects *)

\* {...a, ...b}
Merge(a, b) ==
    [k \in DOMAIN a \cup DOMAIN b |-> IF k \in DOMAIN b THEN b[k] ELSE a[k]]

\* the object without the keys of K (a key set to undefined is not serialised)
Without(r, K) == [k \in DOMAIN r \ K |-> r[k]]

Has(r, k) == k \in DOMAIN r

----------------------------------------------------------------------------
(* ObjectId *)

\* an ObjectId prints as this many hexadecimal digits
OidHexLen == 24

HexDigitSet == Range(HexDigits)

RECURSIVE ToHex(_, _)
ToHex(n, len) ==
    IF len = 0 THEN <<>>
    ELSE Append(ToHex(n \div 16, len - 1), HexDigits[(n % 16) + 1])

\* the n-th ObjectId the driver generates for an inserted document
NewObjectId(n) == ToHex(n, OidHexLen)

\* ObjectId.isValid for a string: new ObjectId(id) throws when it is false
IsObjectIdString(id) ==
    /\ Len(id) = OidHexLen
    /\ \A i \in DOMAIN id : ToLowerCase(id[i]) \in HexDigitSet

\* new ObjectId(id), for a well-formed id
ObjectId(id) == Lower(id)

\* _id.toString()
ObjectIdToString(oid) == oid

----------------------------------------------------------------------------
(* The history collection *)

\* the position of the document with this _id, 0 when there is none
IndexOf(coll, oid) ==
    IF \E i \in DOMAIN coll : coll[i]._id = oid
    THEN CHOOSE i \in DOMAIN coll : coll[i]._id = oid
    ELSE 0

RemoveAt(coll, i) == SubSeq(coll, 1, i - 1) \o SubSeq(coll, i + 1, Len(coll))

\* doc => ({...doc, id: doc._id.toString(), _id: undefined})
ToHistoryItem(doc) ==
    Merge(Without(doc, {"_id"}), [id |-> ObjectIdToString(doc._id)])

ToHistoryItems(docs) == [i \in DOMAIN docs |-> ToHistoryItem(docs[i])]

\* the document goes before the first one that is strictly older
RECURSIVE InsertNewestFirst(_, _)
InsertNewestFirst(sorted, doc) ==
    IF sorted = <<>> THEN <<doc>>
    ELSE IF Head(sorted).createdAt < doc.createdAt
         THEN <<doc>> \o sorted
         ELSE <<Head(sorted)>> \o InsertNewestFirst(Tail(sorted), doc)

\* cursor.sort({ createdAt: -1 }); documents of equal createdAt keep their
\* natural order
RECURSIVE SortNewestFirst(_)
SortNewestFirst(docs) ==
    IF docs = <<>> THEN <<>>
    ELSE InsertNewestFirst(SortNewestFirst(SubSeq(docs, 1, Len(docs) - 1)),
                           docs[Len(docs)])

Abs(n) == IF n < 0 THEN 0 - n ELSE n

Min(a, b) == IF a < b THEN a ELSE b

Max(a, b) == IF a > b THEN a ELSE b

\* cursor.limit(n): 0 is "no limit", a negative n is a limit of -n
Limit(docs, n) ==
    IF n = 0 THEN docs ELSE SubSeq(docs, 1, Min(Abs(n), Len(docs)))

\* cursor.skip(n), n >= 0
Skip(docs, n) == SubSeq(docs, n + 1, Len(docs))

----------------------------------------------------------------------------
(* Matching of the search filter *)

\* { field: { $regex: query, $options: "i" } } for a query without regular
\* expression metacharacters: the field contains the query, ignoring case
RegexMatch(text, query) == ContainsCI(text, query)

\* the whitespace-separated words of a text
RECURSIVE Words(_)
Words(s) ==
    LET t == TrimStart(s)
    IN IF t = <<>> THEN {}
       ELSE LET stop == IF \E i \in DOMAIN t : t[i] \in Whitespace
                        THEN (CHOOSE i \in DOMAIN t :
                                 /\ t[i] \in Whitespace
                                 /\ \A j \in 1..(i - 1) : t[j] \notin Whitespace) - 1
                        ELSE Len(t)
            IN {Lower(SubSeq(t, 1, stop))} \cup Words(Drop(t, stop))

MedicineNames(doc) ==
    IF Has(doc, "prescription")
    THEN {doc.prescription.items[i].medicine.name :
              i \in DOMAIN doc.prescription.items}
    ELSE {}

Diagnoses(doc) ==
    IF Has(doc, "prescription") /\ Has(doc.prescription, "diagnosis")
    THEN {doc.prescription.diagnosis}
    ELSE {}

Tags(doc) == IF Has(doc, "tags") THEN Range(doc.tags) ELSE {}

\* the fields of the text index
TextIndexed(doc) ==
    {doc.originalText, doc.simplifiedText} \cup Diagnoses(doc) \cup MedicineNames(doc)

\* { $text: { $search: query } }: some word of the query is a word of an
\* indexed field, ignoring case
TextMatch(doc, query) ==
    \E f \in TextIndexed(doc) : Words(f) \cap Words(query) # {}

\* the $or of searchFilter
MatchesFilter(doc, query) ==
    \/ TextMatch(doc, query)
    \/ RegexMatch(doc.originalText, query)
    \/ RegexMatch(doc.simplifiedText, query)
    \/ \E d \in Diagnoses(doc) : RegexMatch(d, query)
    \/ \E m \in MedicineNames(doc) : RegexMatch(m, query)
    \/ \E t \in Tags(doc) : RegexMatch(t, query)

\* collection.find(searchFilter)
Find(coll, query) == SelectSeq(coll, LAMBDA doc : MatchesFilter(doc, query))

----------------------------------------------------------------------------
(* lib/db-history: the store operations.  Each takes the collection and    *)
(* its arguments and yields the collection afterwards and what the call    *)
(* returned or threw; dbOk is whether the database answers this call       *)
(* (getCollection and the driver call resolve).                            *)

Null == [kind |-> "null"]
Item(v) == [kind |-> "item", value |-> v]
Bool(v) == [kind |-> "bool", value |-> v]
List(v) == [kind |-> "list", value |-> v]
Thrown(msg) == [kind |-> "throw", message |-> msg]

\* a variant that stores the first reading of the clock as updatedAt while
\* returning the second
addHistory_StaleUpdatedAt(coll, item, oid, t1, t2, dbOk) ==
    IF ~dbOk
    THEN [store |-> coll,
          out |-> Thrown("Failed to save prescription to database")]
    ELSE LET newItem == Merge(item, [createdAt |-> t1, updatedAt |-> t2])
             stored == Merge(item, [createdAt |-> t1, updatedAt |-> t1])
         IN [store |-> Append(coll, Merge(stored, [_id |-> oid])),
             out |-> Item(Merge(newItem, [id |-> ObjectIdToString(oid)]))]

\* createdAt and updatedAt are two readings of the clock, t1 then t2
addHistory(coll, item, oid, t1, t2, dbOk) ==
    IF ~dbOk
    THEN [store |-> coll,
          out |-> Thrown("Failed to save prescription to database")]
    ELSE LET newItem == Merge(item, [createdAt |-> t1, updatedAt |-> t2])
         IN [store |-> Append(coll, Merge(newItem, [_id |-> oid])),
             out |-> Item(Merge(newItem, [id |-> ObjectIdToString(oid)]))]

\* a variant that stamps createdAt as well as updatedAt
UpdateData_TouchesCreatedAt(updates, t) ==
    Without(Merge(updates, [updatedAt |-> t, createdAt |-> t]), {"id", "_id"})

\* { ...updates, updatedAt: now, id: undefined, _id: undefined }
UpdateData(updates, t) ==
    Without(Merge(updates, [updatedAt |-> t]), {"id", "_id"})

\* a variant that replaces the document by the patch instead of merging
updateHistory_Replaces(coll, id, updates, t, dbOk) ==
    IF ~dbOk \/ ~IsObjectIdString(id)
    THEN [store |-> coll,
          out |-> Thrown("Failed to update prescription in database")]
    ELSE LET i == IndexOf(coll, ObjectId(id))
         IN IF i = 0
            THEN [store |-> coll, out |-> Null]
            ELSE LET doc == Merge([_id |-> coll[i]._id,
                                   createdAt |-> coll[i].createdAt],
                                  UpdateData(updates, t))
                 IN [store |-> [coll EXCEPT ![i] = doc],
                     out |-> Item(ToHistoryItem(doc))]

updateHistory(coll, id, updates, t, dbOk) ==
    IF ~dbOk \/ ~IsObjectIdString(id)
    THEN [store |-> coll,
          out |-> Thrown("Failed to update prescription in database")]
    ELSE LET i == IndexOf(coll, ObjectId(id))
         IN IF i = 0
            THEN [store |-> coll, out |-> Null]
            ELSE LET doc == Merge(coll[i], UpdateData(updates, t))
                 IN [store |-> [coll EXCEPT ![i] = doc],
                     out |-> Item(ToHistoryItem(doc))]

\* a variant that reports the deletion and keeps the document (a soft delete)
deleteHistory_KeepsDocument(coll, id, dbOk) ==
    IF ~dbOk \/ ~IsObjectIdString(id)
    THEN [store |-> coll,
          out |-> Thrown("Failed to delete prescription from database")]
    ELSE [store |-> coll, out |-> Bool(IndexOf(coll, ObjectId(id)) # 0)]

deleteHistory(coll, id, dbOk) ==
    IF ~dbOk \/ ~IsObjectIdString(id)
    THEN [store |-> coll,
          out |-> Thrown("Failed to delete prescription from database")]
    ELSE LET i == IndexOf(coll, ObjectId(id))
         IN IF i = 0
            THEN [store |-> coll, out |-> Bool(FALSE)]
            ELSE [store |-> RemoveAt(coll, i), out |-> Bool(TRUE)]

\* a variant that rethrows what the lookup throws, as updateHistory does
getHistoryById_Rethrows(coll, id, dbOk) ==
    IF ~dbOk \/ ~IsObjectIdString(id)
    THEN Thrown("Failed to fetch prescription from database")
    ELSE LET i == IndexOf(coll, ObjectId(id))
         IN IF i = 0 THEN Null ELSE Item(ToHistoryItem(coll[i]))

getHistoryById(coll, id, dbOk) ==
    IF ~dbOk \/ ~IsObjectIdString(id)
    THEN Null
    ELSE LET i == IndexOf(coll, ObjectId(id))
         IN IF i = 0 THEN Null ELSE Item(ToHistoryItem(coll[i]))

searchHistory(coll, query, limit, dbOk) ==
    IF ~dbOk
    THEN List(<<>>)
    ELSE List(ToHistoryItems(Limit(SortNewestFirst(Find(coll, query)), limit)))

\* find({}).sort({ createdAt: -1 }).limit(limit).skip(skip): the cursor skips
\* before it limits, and rejects a negative skip
getHistory(coll, limit, skip, dbOk) ==
    IF ~dbOk \/ skip < 0
    THEN List(<<>>)
    ELSE List(ToHistoryItems(Limit(Skip(SortNewestFirst(coll), skip), limit)))

\* the statistics windows, in ticks of the clock (one tick is a week: 7 days
\* are 1 tick, and a document is within 30 days when it is at most 4 ticks old)
WeekTicks == 1
MonthTicks == 4

Count(coll, P(_)) == Len(SelectSeq(coll, P))

ZeroStats ==
    [total |-> 0, thisWeek |-> 0, thisMonth |-> 0,
     completed |-> 0, failed |-> 0, pending |-> 0]

\* A createdAt is an ISO date string, modelled by its instant.  NotADate is a
\* createdAt string that is no date: as a string it sorts after every ISO
\* date, and $dateFromString fails on it
NotADate == MaxTime + 1

IsDateString(v) == v # NotADate

\* the $group stage yields no group for an empty collection, and the
\* aggregation fails when $dateFromString cannot parse a createdAt
getHistoryStats(coll, t, dbOk) ==
    IF ~dbOk \/ coll = <<>> \/ \E i \in DOMAIN coll : ~IsDateString(coll[i].createdAt)
    THEN ZeroStats
    ELSE [total |-> Len(coll),
          thisWeek |-> Count(coll, LAMBDA d : d.createdAt >= t - WeekTicks),
          thisMonth |-> Count(coll, LAMBDA d : d.createdAt >= t - MonthTicks),
          completed |-> Count(coll, LAMBDA d : d.processingStatus = "completed"),
          failed |-> Count(coll, LAMBDA d : d.processingStatus = "failed"),
          pending |-> Count(coll, LAMBDA d : d.processingStatus = "pending")]

\* collection.find({}).toArray(): every document, in natural order
backupHistory(coll, dbOk) ==
    IF ~dbOk
    THEN Thrown("Failed to create backup of prescription data")
    ELSE List(ToHistoryItems(coll))

\* a variant that rolls a failed batch back: nothing of it stays inserted
restoreHistory_RollsBack(coll, backupData, oids, written, dbOk) ==
    IF ~dbOk \/ backupData = <<>> \/ written < Len(backupData)
    THEN [store |-> coll, out |-> Bool(FALSE)]
    ELSE LET inserted == [i \in DOMAIN backupData |->
                             Merge(Without(backupData[i], {"id"}), [_id |-> oids[i]])]
         IN [store |-> coll \o inserted, out |-> Bool(TRUE)]

\* a variant that reinserts each record under the id it carries
restoreHistory_KeepsIds(coll, backupData, oids, written, dbOk) ==
    IF ~dbOk \/ backupData = <<>>
    THEN [store |-> coll, out |-> Bool(FALSE)]
    ELSE LET insertedCount == Min(written, Len(backupData))
             inserted == [i \in 1..insertedCount |->
                             Merge(Without(backupData[i], {"id"}),
                                   [_id |-> backupData[i].id])]
         IN [store |-> coll \o inserted,
             out |-> Bool(insertedCount = Len(backupData))]

\* insertMany is ordered: the documents before the first one that fails to be
\* written stay inserted and the call throws, which restoreHistory reports as
\* false.  written is how many documents the database writes; oids are the
\* ObjectIds generated for them.  insertMany rejects an empty batch.
restoreHistory(coll, backupData, oids, written, dbOk) ==
    IF ~dbOk \/ backupData = <<>>
    THEN [store |-> coll, out |-> Bool(FALSE)]
    ELSE LET documentsToInsert ==
                 [i \in DOMAIN backupData |-> Without(backupData[i], {"id"})]
             insertedCount == Min(written, Len(backupData))
             inserted == [i \in 1..insertedCount |->
                             Merge(documentsToInsert[i], [_id |-> oids[i]])]
         IN [store |-> coll \o inserted,
             out |-> Bool(insertedCount = Len(backupData))]

----------------------------------------------------------------------------
(* app/api/history/route: the handlers.  A request's query parameters or   *)
(* JSON body are a record holding the keys that are present; a response    *)
(* is its HTTP status and its JSON body.                                   *)

\* searchParams.get(k) || fallback, body.k || fallback: an absent key and an
\* empty string are both falsy
TextKeys == {"q", "id", "originalText", "simplifiedText", "imageUrl", "text"}

Truthy(r, k) ==
    /\ Has(r, k)
    /\ k \in TextKeys => r[k] # <<>>
    /\ k = "processingStatus" => r[k] # ""

\* Number.parseInt(searchParams.get(k) || fallback)
IntParam(params, k, fallback) == IF Has(params, k) THEN params[k] ELSE fallback

DefaultPage == 1
DefaultLimit == 20

\* formatSuccessResponse, as NextResponse.json(..., { status })
SuccessResponse(status, data, t) ==
    [status |-> status, body |-> [success |-> TRUE, data |-> data, timestamp |-> t]]

\* formatErrorResponse(message, statusCode): the body is createAPIError(message)
ErrorResponse(status, message, t) ==
    [status |-> status, body |-> [error |-> message, timestamp |-> t]]

\* formatErrorResponse(handleAPIError(error), 500)
InternalErrorResponse(message, t) ==
    [status |-> 500,
     body |-> [error |-> message, code |-> "INTERNAL_ERROR", timestamp |-> t]]

\* Array.prototype.slice(start, end)
SliceIndex(len, i) == IF i < 0 THEN (IF len + i < 0 THEN 0 ELSE len + i)
                      ELSE Min(i, len)

Slice(s, start, end) ==
    SubSeq(s, SliceIndex(Len(s), start) + 1, SliceIndex(Len(s), end))

\* Math.ceil(total / limit) as JSON prints it: null for NaN and Infinity
TotalPages(total, limit) ==
    IF limit = 0 THEN "null"
    ELSE IF limit > 0 THEN (total + limit - 1) \div limit
    ELSE 0 - (total \div (0 - limit))

\* tags.map((tag) => sanitizeInput(tag)).filter(Boolean)
SanitizeTags(tags) ==
    SelectSeq([i \in DOMAIN tags |-> sanitizeInput(tags[i])], LAMBDA tag : tag # <<>>)

GET(coll, params, t, dbOk) ==
    LET page == IntParam(params, "page", DefaultPage)
        limit == IntParam(params, "limit", DefaultLimit)
    IN IF Has(params, "stats") /\ params.stats = "true"
       THEN SuccessResponse(200, getHistoryStats(coll, t, dbOk), t)
       ELSE IF Truthy(params, "id")
       THEN LET item == getHistoryById(coll, sanitizeInput(params.id), dbOk)
            IN CASE item.kind = "throw" -> InternalErrorResponse(item.message, t)
                 [] item.kind = "null" ->
                      ErrorResponse(404, "History item not found", t)
                 [] OTHER -> SuccessResponse(200, item.value, t)
       ELSE IF Truthy(params, "q")
       THEN LET sanitizedQuery == sanitizeInput(params.q)
                validation == validateTextInput(sanitizedQuery, QueryMaxLength)
            IN IF ~validation.isValid
               THEN ErrorResponse(400, validation.errors, t)
               ELSE LET history ==
                            searchHistory(coll, sanitizedQuery, limit, dbOk).value
                        totalCount == Len(history)
                    IN SuccessResponse(200,
                         [items |-> Slice(history, (page - 1) * limit,
                                          (page - 1) * limit + limit),
                          pagination |->
                            [page |-> page, limit |-> limit, total |-> totalCount,
                             totalPages |-> TotalPages(totalCount, limit),
                             hasNext |-> page * limit < totalCount,
                             hasPrev |-> page > 1]], t)
       ELSE LET history == getHistory(coll, limit, (page - 1) * limit, dbOk).value
                totalCount == Len(history)
            IN SuccessResponse(200,
                 [items |-> history,
                  pagination |->
                    [page |-> page, limit |-> limit, total |-> totalCount,
                     totalPages |-> TotalPages(totalCount, limit),
                     hasNext |-> Len(history) = limit,
                     hasPrev |-> page > 1]], t)

\* the keys of K that are present in the body with a truthy value (an array
\* or an object is truthy, an empty string is not)
TruthyKeys(body, K) == {k \in K : Truthy(body, k)}

POST(coll, body, oid, t1, t2, dbOk) ==
    IF ~Truthy(body, "originalText") \/ ~Truthy(body, "simplifiedText")
    THEN [store |-> coll,
          response |-> ErrorResponse(400, "originalText and simplifiedText are required", t1)]
    ELSE LET sanitizedData ==
                 Merge(Merge([originalText |-> sanitizeInput(body.originalText),
                              simplifiedText |-> sanitizeInput(body.simplifiedText),
                              tags |-> IF Has(body, "tags")
                                       THEN SanitizeTags(body.tags) ELSE <<>>,
                              processingStatus |-> "completed"],
                             IF Has(body, "prescription")
                             THEN [prescription |-> body.prescription]
                             ELSE <<>>),
                       IF Truthy(body, "imageUrl")
                       THEN [imageUrl |-> sanitizeInput(body.imageUrl)]
                       ELSE <<>>)
         IN IF ~validateTextInput(sanitizedData.originalText, DefaultMaxLength).isValid
            THEN [store |-> coll,
                  response |-> ErrorResponse(400, "Original text validation failed", t1)]
            ELSE IF ~validateTextInput(sanitizedData.simplifiedText,
                                       DefaultMaxLength).isValid
            THEN [store |-> coll,
                  response |-> ErrorResponse(400, "Simplified text validation failed", t1)]
            ELSE LET r == addHistory(coll, sanitizedData, oid, t1, t2, dbOk)
                 IN [store |-> r.store,
                     response |-> IF r.out.kind = "throw"
                                  THEN InternalErrorResponse(r.out.message, t2)
                                  ELSE SuccessResponse(201, r.out.value, t2)]

\* the sanitized copy PUT builds of the fields it lets through
SanitizedUpdates(updates) ==
    [k \in TruthyKeys(updates, {"originalText", "simplifiedText", "tags",
                                "prescription", "processingStatus"}) |->
        CASE k \in {"originalText", "simplifiedText"} -> sanitizeInput(updates[k])
          [] k = "tags" -> SanitizeTags(updates[k])
          [] OTHER -> updates[k]]

PUT(coll, body, t, dbOk) ==
    IF ~Truthy(body, "id")
    THEN [store |-> coll,
          response |-> ErrorResponse(400, "ID is required for updates", t)]
    ELSE LET r == updateHistory(coll, sanitizeInput(body.id),
                                SanitizedUpdates(Without(body, {"id"})), t, dbOk)
         IN [store |-> r.store,
             response |-> CASE r.out.kind = "throw" ->
                                 InternalErrorResponse(r.out.message, t)
                            [] r.out.kind = "null" ->
                                 ErrorResponse(404, "History item not found", t)
                            [] OTHER -> SuccessResponse(200, r.out.value, t)]

DELETE(coll, params, t, dbOk) ==
    IF ~Truthy(params, "id")
    THEN [store |-> coll,
          response |-> ErrorResponse(400, "ID is required for deletion", t)]
    ELSE LET r == deleteHistory(coll, sanitizeInput(params.id), dbOk)
         IN [store |-> r.store,
             response |-> CASE r.out.kind = "throw" ->
                                 InternalErrorResponse(r.out.message, t)
                            [] ~r.out.value ->
                                 ErrorResponse(404, "History item not found", t)
                            [] OTHER -> SuccessResponse(200, Null, t)]

----------------------------------------------------------------------------
(* The inputs explored *)

Str_IbuTID == <<"I", "b", "u", " ", "T", "I", "D">>
Str_TakeIbu == <<"t", "a", "k", "e", " ", "i", "b", "u">>
Str_Para == <<"P", "a", "r", "a">>
Str_TakePara == <<"t", "a", "k", "e", " ", "p", "a", "r", "a">>
Str_Ibu == <<"I", "b", "u">>
Str_Flu == <<"f", "l", "u">>
Str_test == <<"t", "e", "s", "t">>
Str_updated == <<"u", "p", "d", "a", "t", "e", "d">>

\* testPrescription of scripts/test-mongodb, shortened
IbuPrescription ==
    [id |-> "test_001",
     diagnosis |-> Str_Flu,
     items |-> <<[id |-> "test_item_001", medicine |-> [name |-> Str_Ibu]]>>]

ItemIbu ==
    [originalText |-> Str_IbuTID, simplifiedText |-> Str_TakeIbu,
     prescription |-> IbuPrescription, processingStatus |-> "completed",
     tags |-> <<Str_test>>]

ItemPara ==
    [originalText |-> Str_Para, simplifiedText |-> Str_TakePara,
     processingStatus |-> "pending"]

Items == {ItemIbu, ItemPara}

\* a well-formed id no document ever gets, and ids that are not ObjectIds
UnknownId == NewObjectId(0)
MalformedId == <<"n", "o", "t", "-", "a", "n", "-", "i", "d">>

StoreIds == {NewObjectId(n) : n \in 0..MaxIds} \cup {MalformedId}

EmptyPatch == <<>>
PatchTags == [tags |-> <<Str_test, Str_updated>>, processingStatus |-> "failed"]
PatchProtected ==
    [id |-> UnknownId, _id |-> UnknownId, createdAt |-> 0, updatedAt |-> 0]

Patches == {EmptyPatch, PatchTags, PatchProtected}

Str_ibu == <<"i", "b", "u">>
Str_TEST == <<"T", "E", "S", "T">>
Str_TakePills == <<"t", "a", "k", "e", " ", "p", "i", "l", "l", "s">>

Queries == {Str_ibu, Str_TEST, Str_TakePills}

Limits == 0..MaxIds

Skips == {0, 1}

\* records of a backup: each carries the id it had when the backup was
\* taken, which may be the id of a record that is still stored
BackupIbu ==
    Merge(ItemIbu, [id |-> NewObjectId(1), createdAt |-> 0, updatedAt |-> 0])
BackupPara ==
    Merge(ItemPara, [id |-> UnknownId, createdAt |-> 0, updatedAt |-> 1])
BackupOther ==
    Merge(ItemIbu, [id |-> MalformedId, createdAt |-> 0, updatedAt |-> 0])

Backups == {<<>>, <<BackupIbu>>, <<BackupPara, BackupOther>>}

\* what the handlers are sent: an id in quotes, markup around a text
QuotedId == <<"'">> \o NewObjectId(1) \o <<"'">>
HttpIds == StoreIds \cup {QuotedId}

Str_Blank == <<" ", " ">>
Str_Tag == <<"<", "b", ">">>
Str_BoldIbuTID == Str_Tag \o Str_IbuTID \o <<"<", "/", "b", ">">>
Str_OnClick == <<"o", "n", "c", "l", "i", "c", "k", "=", "x">>

HttpQueries == Queries \cup {<<>>, Str_Blank, Str_Tag}

GetRequests ==
    {[stats |-> "true"], <<>>}
    \cup {[id |-> id] : id \in HttpIds}
    \cup {[q |-> q] : q \in HttpQueries}
    \cup {[q |-> Str_ibu, limit |-> limit] : limit \in Limits}
    \cup {[q |-> Str_ibu, page |-> page, limit |-> 1] : page \in {1, 2}}

PostBodies ==
    {[originalText |-> Str_BoldIbuTID, simplifiedText |-> Str_TakeIbu,
      tags |-> <<Str_test, Str_Tag>>, prescription |-> IbuPrescription],
     [originalText |-> Str_Para],
     [originalText |-> Str_Tag, simplifiedText |-> Str_TakePara],
     [originalText |-> Str_Para, simplifiedText |-> Str_OnClick]}

PutBodies ==
    {[processingStatus |-> "failed"]}
    \cup {Merge([id |-> id], updates) :
              id \in HttpIds,
              updates \in {<<>>,
                           [originalText |-> Str_Tag \o Str_Para,
                            tags |-> <<Str_updated>>,
                            processingStatus |-> "failed",
                            createdAt |-> 0]}}
    \cup {[id |-> NewObjectId(1), simplifiedText |-> Str_Tag,
           processingStatus |-> "archived"]}

DeleteRequests == {<<>>} \cup {[id |-> id] : id \in HttpIds}

----------------------------------------------------------------------------
(* The system: the collection, the ObjectId generator, the clock, and the  *)
(* call a client has made with what it was answered.  Clients await each   *)
(* call: the next one is made once the answer has been taken.              *)

Call(op, args, dbOk, out) == [op |-> op, args |-> args, dbOk |-> dbOk, out |-> out]

NoCall == Call("none", <<>>, TRUE, Null)

\* nothing is in flight and nothing has connected
Quiet ==
    /\ input = <<>>
    /\ client = 0
    /\ db = 0
    /\ clients = <<>>
    /\ pc = <<>>

Init ==
    /\ store = <<>>
    /\ nextId = 1
    /\ now = 0
    /\ last = NoCall
    /\ Quiet

Tick ==
    /\ last = NoCall
    /\ now < MaxTime
    /\ now' = now + 1
    /\ UNCHANGED <<store, nextId, last>>
    /\ UNCHANGED otherVars

\* the client takes the answer
Resume ==
    /\ last # NoCall
    /\ last' = NoCall
    /\ UNCHANGED <<store, nextId, now>>
    /\ UNCHANGED otherVars

\* the clock may advance between addHistory's two readings of it
AddHistory ==
    \E item \in Items, d \in 0..1, dbOk \in BOOLEAN :
      /\ last = NoCall
      /\ nextId <= MaxIds
      /\ now + d <= MaxTime
      /\ LET r == addHistory(store, item, NewObjectId(nextId), now, now + d, dbOk)
         IN /\ store' = r.store
            /\ nextId' = IF dbOk THEN nextId + 1 ELSE nextId
            /\ last' = Call("addHistory", [item |-> item], dbOk, r.out)
      /\ now' = now + d
      /\ UNCHANGED otherVars

UpdateHistory ==
    \E id \in StoreIds, updates \in Patches, dbOk \in BOOLEAN :
      /\ last = NoCall
      /\ LET r == updateHistory(store, id, updates, now, dbOk)
         IN /\ store' = r.store
            /\ last' = Call("updateHistory", [id |-> id, updates |-> updates],
                            dbOk, r.out)
      /\ UNCHANGED <<nextId, now>>
      /\ UNCHANGED otherVars

\* updateHistory with a patch whose createdAt is a string that is no date
UpdateCreatedAt ==
    \E id \in StoreIds, dbOk \in BOOLEAN :
      /\ last = NoCall
      /\ LET updates == [createdAt |-> NotADate]
             r == updateHistory(store, id, updates, now, dbOk)
         IN /\ store' = r.store
            /\ last' = Call("updateHistory", [id |-> id, updates |-> updates],
                            dbOk, r.out)
      /\ UNCHANGED <<nextId, now>>
      /\ UNCHANGED otherVars

DeleteHistory ==
    \E id \in StoreIds, dbOk \in BOOLEAN :
      /\ last = NoCall
      /\ LET r == deleteHistory(store, id, dbOk)
         IN /\ store' = r.store
            /\ last' = Call("deleteHistory", [id |-> id], dbOk, r.out)
      /\ UNCHANGED <<nextId, now>>
      /\ UNCHANGED otherVars

GetHistoryById ==
    \E id \in StoreIds, dbOk \in BOOLEAN :
      /\ last = NoCall
      /\ last' = Call("getHistoryById", [id |-> id], dbOk,
                      getHistoryById(store, id, dbOk))
      /\ UNCHANGED <<store, nextId, now>>
      /\ UNCHANGED otherVars

SearchHistory ==
    \E query \in Queries, limit \in Limits, dbOk \in BOOLEAN :
      /\ last = NoCall
      /\ last' = Call("searchHistory", [query |-> query, limit |-> limit], dbOk,
                      searchHistory(store, query, limit, dbOk))
      /\ UNCHANGED <<store, nextId, now>>
      /\ UNCHANGED otherVars

GetHistory ==
    \E limit \in Limits, skip \in Skips, dbOk \in BOOLEAN :
      /\ last = NoCall
      /\ last' = Call("getHistory", [limit |-> limit, skip |-> skip], dbOk,
                      getHistory(store, limit, skip, dbOk))
      /\ UNCHANGED <<store, nextId, now>>
      /\ UNCHANGED otherVars

GetHistoryStats ==
    \E dbOk \in BOOLEAN :
      /\ last = NoCall
      /\ last' = Call("getHistoryStats", <<>>, dbOk,
                      Item(getHistoryStats(store, now, dbOk)))
      /\ UNCHANGED <<store, nextId, now>>
      /\ UNCHANGED otherVars

\* a variant that moves the documents out: the collection is empty afterwards
BackupHistory_Drains ==
    \E dbOk \in BOOLEAN :
      /\ last = NoCall
      /\ last' = Call("backupHistory", <<>>, dbOk, backupHistory(store, dbOk))
      /\ store' = IF dbOk THEN <<>> ELSE store
      /\ UNCHANGED <<nextId, now>>
      /\ UNCHANGED otherVars

BackupHistory ==
    \E dbOk \in BOOLEAN :
      /\ last = NoCall
      /\ last' = Call("backupHistory", <<>>, dbOk, backupHistory(store, dbOk))
      /\ UNCHANGED <<store, nextId, now>>
      /\ UNCHANGED otherVars

\* the database writes the first written documents of the batch; the
\* ObjectIds generated for the batch are fresh: none is an id the caller holds
RestoreHistory ==
    \E backupData \in Backups, dbOk \in BOOLEAN :
      \E written \in 0..Len(backupData) :
        /\ last = NoCall
        /\ nextId + Len(backupData) - 1 <= MaxIds
        /\ LET oids == [i \in DOMAIN backupData |-> NewObjectId(nextId + i - 1)]
               r == restoreHistory(store, backupData, oids, written, dbOk)
           IN /\ \A i, j \in DOMAIN backupData : backupData[i].id # oids[j]
              /\ store' = r.store
              /\ nextId' = nextId + (Len(r.store) - Len(store))
              /\ last' = Call("restoreHistory",
                              [backupData |-> backupData, written |-> written],
                              dbOk, r.out)
        /\ UNCHANGED now
        /\ UNCHANGED otherVars

HttpGet ==
    \E params \in GetRequests, dbOk \in BOOLEAN :
      /\ last = NoCall
      /\ last' = Call("GET", params, dbOk, GET(store, params, now, dbOk))
      /\ UNCHANGED <<store, nextId, now>>
      /\ UNCHANGED otherVars

HttpPost ==
    \E body \in PostBodies, d \in 0..1, dbOk \in BOOLEAN :
      /\ last = NoCall
      /\ nextId <= MaxIds
      /\ now + d <= MaxTime
      /\ LET r == POST(store, body, NewObjectId(nextId), now, now + d, dbOk)
         IN /\ store' = r.store
            /\ nextId' = IF Len(r.store) > Len(store) THEN nextId + 1 ELSE nextId
            /\ last' = Call("POST", body, dbOk, r.response)
      /\ now' = now + d
      /\ UNCHANGED otherVars

HttpPut ==
    \E body \in PutBodies, dbOk \in BOOLEAN :
      /\ last = NoCall
      /\ LET r == PUT(store, body, now, dbOk)
         IN /\ store' = r.store
            /\ last' = Call("PUT", body, dbOk, r.response)
      /\ UNCHANGED <<nextId, now>>
      /\ UNCHANGED otherVars

HttpDelete ==
    \E params \in DeleteRequests, dbOk \in BOOLEAN :
      /\ last = NoCall
      /\ LET r == DELETE(store, params, now, dbOk)
         IN /\ store' = r.store
            /\ last' = Call("DELETE", params, dbOk, r.response)
      /\ UNCHANGED <<nextId, now>>
      /\ UNCHANGED otherVars

\* the store as the scripts use it: the operations of lib/db-history called
\* directly
Next ==
    \/ Tick
    \/ Resume
    \/ AddHistory
    \/ UpdateHistory
    \/ DeleteHistory
    \/ GetHistoryById
    \/ SearchHistory

Spec == Init /\ [][Next]_vars

\* the whole of lib/db-history: listing, statistics, backup and restore as
\* well
NextStore ==
    \/ Tick
    \/ Resume
    \/ AddHistory
    \/ UpdateHistory
    \/ DeleteHistory
    \/ GetHistoryById
    \/ SearchHistory
    \/ GetHistory
    \/ GetHistoryStats
    \/ BackupHistory
    \/ RestoreHistory

SpecStore == Init /\ [][NextStore]_vars

\* the statistics of a store that callers add to, update and delete from
NextStats ==
    \/ Tick
    \/ Resume
    \/ AddHistory
    \/ UpdateHistory
    \/ UpdateCreatedAt
    \/ DeleteHistory
    \/ GetHistoryStats

SpecStats == Init /\ [][NextStats]_vars

\* the store behind the /api/history handlers
NextHttp ==
    \/ Tick
    \/ Resume
    \/ HttpGet
    \/ HttpPost
    \/ HttpPut
    \/ HttpDelete

SpecHttp == Init /\ [][NextHttp]_vars

----------------------------------------------------------------------------
(* lib/mongodb: the connection the requests share.  A request runs until   *)
(* its next await; the requests in flight take turns there.  A client is   *)
(* the number it was constructed as, and the handle client.db(DB_NAME)     *)
(* gives is known by its client.                                           *)

\* requests in flight at once
MaxProcs == 2
\* MongoClients ever constructed in one run
MaxClients == 2

Procs == 1..MaxProcs

Idle == [op |-> "none", at |-> "idle", arg |-> 0, out |-> Null]

At(op, at, arg) == [op |-> op, at |-> at, arg |-> arg, out |-> Null]

Done(op, arg, out) == [op |-> op, at |-> "done", arg |-> arg, out |-> out]

ConnectFailed == Thrown("Failed to connect to MongoDB Atlas")

SetState(cs, c, state) == [cs EXCEPT ![c] = state]

\* connectToDatabase up to "await client.connect()": the cached handle, or
\* a new client whose connect() is awaited
Connect_Begin(p) ==
    /\ pc[p] = Idle
    /\ IF client # 0 /\ db # 0
       THEN /\ pc' = [pc EXCEPT ![p] = Done("connectToDatabase", 0, Item(db))]
            /\ UNCHANGED <<client, clients>>
       ELSE /\ Len(clients) < MaxClients
            /\ clients' = Append(clients, "created")
            /\ client' = Len(clients) + 1
            /\ pc' = [pc EXCEPT ![p] = At("connectToDatabase", "connect",
                                          Len(clients) + 1)]
    /\ UNCHANGED <<db, store, nextId, now, last, input>>

\* connect() settles; "db = client.db(DB_NAME)" reads the module's client as
\* it is by now, then createIndexes(db) is awaited
Connect_Connected(p) ==
    \E ok \in BOOLEAN :
      /\ pc[p].op = "connectToDatabase" /\ pc[p].at = "connect"
      /\ clients' = SetState(clients, pc[p].arg,
                             IF clients[pc[p].arg] # "created"
                             THEN clients[pc[p].arg]
                             ELSE IF ok THEN "connected" ELSE "failed")
      /\ IF ok /\ client # 0
         THEN /\ db' = client
              /\ pc' = [pc EXCEPT ![p] = At("connectToDatabase", "indexes",
                                              pc[p].arg)]
         ELSE /\ db' = db
              /\ pc' = [pc EXCEPT ![p] = Done("connectToDatabase", pc[p].arg,
                                                ConnectFailed)]
      /\ UNCHANGED <<client, store, nextId, now, last, input>>

\* createIndexes has swallowed its errors; "return db" reads the module's db
\* as it is by now
Connect_Return(p) ==
    /\ pc[p].op = "connectToDatabase" /\ pc[p].at = "indexes"
    /\ pc' = [pc EXCEPT ![p] = Done("connectToDatabase", pc[p].arg,
                                    IF db = 0 THEN Null ELSE Item(db))]
    /\ UNCHANGED <<client, db, clients, store, nextId, now, last, input>>

\* closeConnection up to "await client.close()"
Close_Begin(p) ==
    /\ pc[p] = Idle
    /\ pc' = [pc EXCEPT ![p] = IF client # 0
                               THEN At("closeConnection", "close", client)
                               ELSE Done("closeConnection", 0, Null)]
    /\ UNCHANGED <<client, db, clients, store, nextId, now, last, input>>

\* close() settles: both module variables are reset, or the error is logged
Close_Closed(p) ==
    \E ok \in BOOLEAN :
      /\ pc[p].op = "closeConnection" /\ pc[p].at = "close"
      /\ pc' = [pc EXCEPT ![p] = Done("closeConnection", pc[p].arg, Null)]
      /\ IF ok
         THEN /\ clients' = SetState(clients, pc[p].arg, "closed")
              /\ client' = 0
              /\ db' = 0
         ELSE /\ clients' = SetState(clients, pc[p].arg, "closeFailed")
              /\ UNCHANGED <<client, db>>
      /\ UNCHANGED <<store, nextId, now, last, input>>

\* the caller has its answer; the request slot is free for the next call
Take(p) ==
    /\ pc[p].at = "done"
    /\ pc' = [pc EXCEPT ![p] = Idle]
    /\ UNCHANGED <<client, db, clients, store, nextId, now, last, input>>

InitConn ==
    /\ store = <<>>
    /\ nextId = 1
    /\ now = 0
    /\ last = NoCall
    /\ input = <<>>
    /\ client = 0
    /\ db = 0
    /\ clients = <<>>
    /\ pc = [p \in Procs |-> Idle]

NextConn ==
    \E p \in Procs :
      \/ Connect_Begin(p)
      \/ Connect_Connected(p)
      \/ Connect_Return(p)
      \/ Close_Begin(p)
      \/ Close_Closed(p)
      \/ Take(p)

SpecConn == InitConn /\ [][NextConn]_vars

----------------------------------------------------------------------------
(* Requests on the store that overlap.  The driver call of each request is *)
(* one atomic operation of the server (findOneAndUpdate, deleteOne); the   *)
(* requests take turns at their awaits.                                    *)

\* the record the overlapping requests are about
RaceIds == {NewObjectId(1)}

\* that record is added; the collection holds no other
AddFirst ==
    /\ nextId = 1
    /\ AddHistory

\* updateHistory up to "await getCollection(COLLECTION_NAME)"
Update_Begin(p) ==
    \E id \in RaceIds, updates \in {PatchTags} :
      /\ pc[p] = Idle
      /\ pc' = [pc EXCEPT ![p] = At("updateHistory", "getCollection",
                                    [id |-> id, updates |-> updates])]
      /\ UNCHANGED <<store, nextId, now, last, input, client, db, clients>>

\* updateData is built with the clock as it is now and findOneAndUpdate is
\* sent
Update_Issue(p) ==
    /\ pc[p].op = "updateHistory" /\ pc[p].at = "getCollection"
    /\ pc' = [pc EXCEPT ![p] = At("updateHistory", "findOneAndUpdate",
                                  Merge(pc[p].arg, [t |-> now]))]
    /\ UNCHANGED <<store, nextId, now, last, input, client, db, clients>>

\* a variant whose findOneAndUpdate inserts the patch when no document
\* matches (upsert: true)
Update_Apply_Upserts(p) ==
    \E dbOk \in BOOLEAN :
      /\ pc[p].op = "updateHistory" /\ pc[p].at = "findOneAndUpdate"
      /\ LET a == pc[p].arg
             r == updateHistory(store, a.id, a.updates, a.t, dbOk)
             doc == Merge([_id |-> ObjectId(a.id)], UpdateData(a.updates, a.t))
         IN IF r.out = Null
            THEN /\ store' = Append(store, doc)
                 /\ pc' = [pc EXCEPT ![p] = Done("updateHistory",
                                                 Without(a, {"t"}),
                                                 Item(ToHistoryItem(doc)))]
            ELSE /\ store' = r.store
                 /\ pc' = [pc EXCEPT ![p] = Done("updateHistory",
                                                 Without(a, {"t"}), r.out)]
      /\ UNCHANGED <<nextId, now, last, input, client, db, clients>>

\* the server runs findOneAndUpdate and the request returns what it gave
Update_Apply(p) ==
    \E dbOk \in BOOLEAN :
      /\ pc[p].op = "updateHistory" /\ pc[p].at = "findOneAndUpdate"
      /\ LET a == pc[p].arg
             r == updateHistory(store, a.id, a.updates, a.t, dbOk)
         IN /\ store' = r.store
            /\ pc' = [pc EXCEPT ![p] = Done("updateHistory", Without(a, {"t"}),
                                            r.out)]
      /\ UNCHANGED <<nextId, now, last, input, client, db, clients>>

\* deleteHistory up to "await getCollection(COLLECTION_NAME)"
Delete_Begin(p) ==
    \E id \in RaceIds :
      /\ pc[p] = Idle
      /\ pc' = [pc EXCEPT ![p] = At("deleteHistory", "getCollection", [id |-> id])]
      /\ UNCHANGED <<store, nextId, now, last, input, client, db, clients>>

\* deleteOne is sent, the server runs it and the request returns
Delete_Apply(p) ==
    \E dbOk \in BOOLEAN :
      /\ pc[p].op = "deleteHistory" /\ pc[p].at = "getCollection"
      /\ LET a == pc[p].arg
             r == deleteHistory(store, a.id, dbOk)
         IN /\ store' = r.store
            /\ pc' = [pc EXCEPT ![p] = Done("deleteHistory", a, r.out)]
      /\ UNCHANGED <<nextId, now, last, input, client, db, clients>>

InitRace ==
    /\ store = <<>>
    /\ nextId = 1
    /\ now = 0
    /\ last = NoCall
    /\ input = <<>>
    /\ client = 0
    /\ db = 0
    /\ clients = <<>>
    /\ pc = [p \in Procs |-> Idle]

\* records are added one at a time; updates and deletes overlap
NextRace ==
    \/ Tick
    \/ Resume
    \/ AddFirst
    \/ \E p \in Procs :
         \/ Update_Begin(p)
         \/ Update_Issue(p)
         \/ Update_Apply(p)
         \/ Delete_Begin(p)
         \/ Delete_Apply(p)
         \/ Take(p)

SpecRace == InitRace /\ [][NextRace]_vars

----------------------------------------------------------------------------
(* lib/utils error bodies and the /api/tts handler.  A speed is counted in *)
(* tenths (0.5 is 5, 2.0 is 20).  A key whose value is undefined is not    *)
(* serialised, so the details of an error outside development are the      *)
(* empty object.                                                           *)

\* a variant that reports the stack trace whatever NODE_ENV is
handleAPIError_AlwaysStack(error, nodeEnv, t) ==
    IF error.isError
    THEN [error |-> error.message, code |-> "INTERNAL_ERROR",
          details |-> [stack |-> error.stack], timestamp |-> t]
    ELSE [error |-> "An unexpected error occurred", code |-> "UNKNOWN_ERROR",
          timestamp |-> t]

handleAPIError(error, nodeEnv, t) ==
    IF error.isError
    THEN [error |-> error.message, code |-> "INTERNAL_ERROR",
          details |-> IF nodeEnv = "development"
                      THEN [stack |-> error.stack]
                      ELSE <<>>,
          timestamp |-> t]
    ELSE [error |-> "An unexpected error occurred", code |-> "UNKNOWN_ERROR",
          timestamp |-> t]

TtsMaxLength == 5000
MinSpeed == 5
MaxSpeed == 20
DefaultSpeed == 10

\* body.speed || 1.0: an absent speed and a speed of 0 are both falsy
SpeedOrDefault(body) ==
    IF Has(body, "speed") /\ body.speed # 0 THEN body.speed ELSE DefaultSpeed

\* body.voice || "default", body.language || "en-US"
OrDefault(body, k, fallback) ==
    IF Has(body, k) /\ body[k] # "" THEN body[k] ELSE fallback

\* POST /api/tts; a request whose body is not JSON makes request.json() throw
TtsPOST(request, nodeEnv, t) ==
    IF Has(request, "syntaxError")
    THEN [status |-> 500, body |-> handleAPIError(request.syntaxError, nodeEnv, t)]
    ELSE LET body == request.json
         IN IF ~Truthy(body, "text")
            THEN ErrorResponse(400, "Text is required for TTS conversion", t)
            ELSE LET sanitizedText == sanitizeInput(body.text)
                     validation == validateTextInput(sanitizedText, TtsMaxLength)
                 IN IF ~validation.isValid
                    THEN ErrorResponse(400, "Text validation failed", t)
                    ELSE SuccessResponse(200,
                             [text |-> sanitizedText,
                              voice |-> OrDefault(body, "voice", "default"),
                              speed |-> Max(MinSpeed,
                                            Min(MaxSpeed, SpeedOrDefault(body))),
                              language |-> OrDefault(body, "language", "en-US")],
                             t)

(* Requests to /api/tts *)

\* speeds a client may send, in tenths
Speeds == {0 - 10, 0, 3, 5, 10, 15, 20, 25}

TtsTexts == {Str_TakeIbu, Str_Tag, Str_OnClick}

TtsBodies ==
    {<<>>, [speed |-> 15], [text |-> Str_TakePara, voice |-> "Alex",
                            language |-> "hi-IN", speed |-> 15]}
    \cup {[text |-> text] : text \in TtsTexts}
    \cup {[text |-> text, speed |-> speed] : text \in TtsTexts, speed \in Speeds}

\* what request.json() throws: the same SyntaxError from two call sites
SyntaxErrors ==
    {[isError |-> TRUE, message |-> "Unexpected end of JSON input", stack |-> stack] :
         stack \in {"at JSON.parse", "at POST (route.ts:20)"}}

NodeEnvs == {"development", "production", "test", ""}

TtsRequests ==
    {[json |-> body] : body \in TtsBodies}
    \cup {[syntaxError |-> e] : e \in SyntaxErrors}

\* a request, and the NODE_ENV of the process that serves it
TtsInputs ==
    {[request |-> request, NODE_ENV |-> nodeEnv] :
         request \in TtsRequests, nodeEnv \in NodeEnvs}

HttpTts ==
    /\ last = NoCall
    /\ last' = Call("POST /api/tts", input, TRUE,
                    TtsPOST(input.request, input.NODE_ENV, now))
    /\ UNCHANGED <<store, nextId, now, input, client, db, clients, pc>>

\* the process serves the requests of one client, one after the other
NextRequest ==
    /\ last # NoCall
    /\ last' = NoCall
    /\ \E request \in TtsRequests : input' = [input EXCEPT !.request = request]
    /\ UNCHANGED <<store, nextId, now, client, db, clients, pc>>

InitTts ==
    /\ store = <<>>
    /\ nextId = 1
    /\ now = 0
    /\ last = NoCall
    /\ input \in TtsInputs
    /\ client = 0
    /\ db = 0
    /\ clients = <<>>
    /\ pc = <<>>

NextTts ==
    \/ Tick
    \/ HttpTts
    \/ NextRequest

SpecTts == InitTts /\ [][NextTts]_vars

----------------------------------------------------------------------------
(* The health check (app/api/healthcheck) over the shared connection.  The *)
(* process serves one request at a time here, so connectToDatabase runs    *)
(* from its call to its return without another call in between.            *)

\* connectToDatabase with no other call in flight: the cached handle, or a
\* new client that connects or fails to
connectToDatabase(cl, d, cs, ok) ==
    IF cl # 0 /\ d # 0
    THEN [client |-> cl, db |-> d, clients |-> cs, out |-> Item(d)]
    ELSE IF ok
         THEN [client |-> Len(cs) + 1, db |-> Len(cs) + 1,
               clients |-> Append(cs, "connected"), out |-> Item(Len(cs) + 1)]
         ELSE [client |-> Len(cs) + 1, db |-> d,
               clients |-> Append(cs, "failed"), out |-> ConnectFailed]

\* the data directory check and the heap check have the outcomes the
\* machine gives them; statuses[service] is "up" or "down"
HealthStatus(database, fileSystem, memoryHigh) ==
    IF "down" \in {database, fileSystem} THEN "unhealthy"
    ELSE IF memoryHigh THEN "degraded"
    ELSE "healthy"

\* GET /api/healthcheck once connectToDatabase has answered with connected
\* (an "item") or has thrown
HealthGET(coll, connected, detailed, t, queryOk, fsOk, memoryHigh) ==
    LET database == IF connected.kind = "item" THEN "up" ELSE "down"
        fileSystem == IF fsOk THEN "up" ELSE "down"
        stats == getHistoryStats(coll, t, queryOk)
        status == HealthStatus(database, fileSystem, memoryHigh)
        healthData == [status |-> status,
                       services |-> [database |-> database,
                                     fileSystem |-> fileSystem]]
    IN SuccessResponse(IF status = "unhealthy" THEN 503 ELSE 200,
                       IF detailed /\ database = "up"
                       THEN Merge(healthData,
                                  [stats |-> [totalPrescriptions |-> stats.total,
                                              recentActivity |-> stats.thisWeek]])
                       ELSE healthData,
                       t)

\* the connection is there, or can be made within the bound on clients
CanConnect == (client # 0 /\ db # 0) \/ Len(clients) < MaxClients

\* addHistory with its getCollection spelled out: the insert is made on the
\* handle connectToDatabase gives
AddHistoryConnected ==
    \E item \in Items, connectOk \in BOOLEAN, insertOk \in BOOLEAN :
      /\ last = NoCall
      /\ nextId <= MaxIds
      /\ CanConnect
      /\ LET c == connectToDatabase(client, db, clients, connectOk)
             dbOk == c.out.kind = "item" /\ insertOk
             r == addHistory(store, item, NewObjectId(nextId), now, now, dbOk)
         IN /\ store' = r.store
            /\ nextId' = IF dbOk THEN nextId + 1 ELSE nextId
            /\ last' = Call("addHistory", [item |-> item], dbOk, r.out)
            /\ client' = c.client
            /\ db' = c.db
            /\ clients' = c.clients
      /\ UNCHANGED <<now, input, pc>>

HttpHealth ==
    \E detailed \in BOOLEAN, connectOk \in BOOLEAN, queryOk \in BOOLEAN,
       fsOk \in BOOLEAN, memoryHigh \in BOOLEAN :
      /\ last = NoCall
      /\ CanConnect
      /\ LET c == connectToDatabase(client, db, clients, connectOk)
         IN /\ last' = Call("GET /api/healthcheck",
                            [detailed |-> detailed,
                             cached |-> (client # 0 /\ db # 0),
                             fsOk |-> fsOk, memoryHigh |-> memoryHigh],
                            c.out.kind = "item" /\ queryOk,
                            HealthGET(store, c.out, detailed, now, queryOk, fsOk,
                                      memoryHigh))
            /\ client' = c.client
            /\ db' = c.db
            /\ clients' = c.clients
      /\ UNCHANGED <<store, nextId, now, input, pc>>

NextHealth ==
    \/ Tick
    \/ Resume
    \/ AddHistoryConnected
    \/ HttpHealth

SpecHealth == Init /\ [][NextHealth]_vars

----------------------------------------------------------------------------
(* The text utilities as functions of any JavaScript value: sanitizeInput  *)
(* and validateTextInput of lib/utils, expandAbbreviations over the        *)
(* abbreviation table.  A value is known by its typeof; a string carries   *)
(* its characters.                                                         *)

Str(s) == [typeof |-> "string", value |-> s]

\* undefined, null and a number: what a JSON body may hold in place of a text
NonStrings ==
    {[typeof |-> "undefined"], [typeof |-> "object"], [typeof |-> "number"]}

\* !str || typeof str !== "string"
IsText(v) == v.typeof = "string" /\ v.value # <<>>

\* sanitizeInput of a value of any type
sanitizeInputOf(v) ==
    IF ~IsText(v) THEN <<>> ELSE sanitizeInput(v.value)

\* validateTextInput of a value of any type
validateTextInputOf(v, maxLength) ==
    IF ~IsText(v)
    THEN [isValid |-> FALSE, errors |-> <<"required">>]
    ELSE validateTextInput(v.value, maxLength)

\* medicalAbbreviations: abbreviation and fullForm of each entry, in table
\* order
medicalAbbreviations ==
    <<
      [abbreviation |-> <<"b", "i", "d">>,
       fullForm |-> <<"t", "w", "i", "c", "e", " ", "a", " ", "d", "a", "y">>],
      [abbreviation |-> <<"t", "i", "d">>,
       fullForm |-> <<"t", "h", "r", "e", "e", " ", "t", "i", "m", "e", "s",
                      " ", "a", " ", "d", "a", "y">>],
      [abbreviation |-> <<"q", "i", "d">>,
       fullForm |-> <<"f", "o", "u", "r", " ", "t", "i", "m", "e", "s", " ",
                      "a", " ", "d", "a", "y">>],
      [abbreviation |-> <<"q", "d">>,
       fullForm |-> <<"o", "n", "c", "e", " ", "a", " ", "d", "a", "y">>],
      [abbreviation |-> <<"q", "1", "2", "h">>,
       fullForm |-> <<"e", "v", "e", "r", "y", " ", "1", "2", " ", "h", "o",
                      "u", "r", "s">>],
      [abbreviation |-> <<"q", "8", "h">>,
       fullForm |-> <<"e", "v", "e", "r", "y", " ", "8", " ", "h", "o", "u",
                      "r", "s">>],
      [abbreviation |-> <<"q", "6", "h">>,
       fullForm |-> <<"e", "v", "e", "r", "y", " ", "6", " ", "h", "o", "u",
                      "r", "s">>],
      [abbreviation |-> <<"q", "4", "h">>,
       fullForm |-> <<"e", "v", "e", "r", "y", " ", "4", " ", "h", "o", "u",
                      "r", "s">>],
      [abbreviation |-> <<"p", "r", "n">>,
       fullForm |-> <<"a", "s", " ", "n", "e", "e", "d", "e", "d">>],
      [abbreviation |-> <<"a", "c">>,
       fullForm |-> <<"b", "e", "f", "o", "r", "e", " ", "m", "e", "a", "l",
                      "s">>],
      [abbreviation |-> <<"p", "c">>,
       fullForm |-> <<"a", "f", "t", "e", "r", " ", "m", "e", "a", "l", "s">>],
      [abbreviation |-> <<"h", "s">>,
       fullForm |-> <<"a", "t", " ", "b", "e", "d", "t", "i", "m", "e">>],
      [abbreviation |-> <<"p", "o">>,
       fullForm |-> <<"b", "y", " ", "m", "o", "u", "t", "h">>],
      [abbreviation |-> <<"i", "v">>,
       fullForm |-> <<"i", "n", "t", "r", "a", "v", "e", "n", "o", "u", "s">>],
      [abbreviation |-> <<"i", "m">>,
       fullForm |-> <<"i", "n", "t", "r", "a", "m", "u", "s", "c", "u", "l",
                      "a", "r">>],
      [abbreviation |-> <<"s", "c">>,
       fullForm |-> <<"s", "u", "b", "c", "u", "t", "a", "n", "e", "o", "u",
                      "s">>],
      [abbreviation |-> <<"s", "l">>,
       fullForm |-> <<"u", "n", "d", "e", "r", " ", "t", "h", "e", " ", "t",
                      "o", "n", "g", "u", "e">>],
      [abbreviation |-> <<"m", "g">>,
       fullForm |-> <<"m", "i", "l", "l", "i", "g", "r", "a", "m", "s">>],
      [abbreviation |-> <<"m", "c", "g">>,
       fullForm |-> <<"m", "i", "c", "r", "o", "g", "r", "a", "m", "s">>],
      [abbreviation |-> <<"m", "l">>,
       fullForm |-> <<"m", "i", "l", "l", "i", "l", "i", "t", "e", "r", "s">>],
      [abbreviation |-> <<"c", "a", "p", "s">>,
       fullForm |-> <<"c", "a", "p", "s", "u", "l", "e", "s">>],
      [abbreviation |-> <<"t", "a", "b", "s">>,
       fullForm |-> <<"t", "a", "b", "l", "e", "t", "s">>]
    >>

\* a word boundary (\b) lies before position i + 1 of the text
Boundary(text, i) ==
    (i >= 1 /\ text[i] \in WordChars) # (i < Len(text) /\ text[i + 1] \in WordChars)

\* the regular expression \b<abbreviation>\b, case-insensitive, matches at
\* position i
MatchesWord(text, i, word) ==
    /\ i + Len(word) - 1 <= Len(text)
    /\ \A j \in 1..Len(word) : ToLowerCase(text[i + j - 1]) = ToLowerCase(word[j])
    /\ Boundary(text, i - 1)
    /\ Boundary(text, i + Len(word) - 1)

\* text.replace(regex, fullForm) with the "g" flag, from position i on
RECURSIVE ReplaceWord(_, _, _, _)
ReplaceWord(text, i, word, fullForm) ==
    IF i > Len(text) THEN <<>>
    ELSE IF MatchesWord(text, i, word)
         THEN fullForm \o ReplaceWord(text, i + Len(word), word, fullForm)
         ELSE <<text[i]>> \o ReplaceWord(text, i + 1, word, fullForm)

\* a variant of the regular expression without the \b: the abbreviation is
\* replaced wherever it occurs
RECURSIVE ReplaceAnywhere(_, _, _, _)
ReplaceAnywhere(text, i, word, fullForm) ==
    IF i > Len(text) THEN <<>>
    ELSE IF /\ i + Len(word) - 1 <= Len(text)
            /\ \A j \in 1..Len(word) :
                   ToLowerCase(text[i + j - 1]) = ToLowerCase(word[j])
         THEN fullForm \o ReplaceAnywhere(text, i + Len(word), word, fullForm)
         ELSE <<text[i]>> \o ReplaceAnywhere(text, i + 1, word, fullForm)

\* the forEach over a table, entry k onwards
RECURSIVE ExpandFrom(_, _, _)
ExpandFrom(table, k, text) ==
    IF k > Len(table) THEN text
    ELSE ExpandFrom(table, k + 1,
                    ReplaceWord(text, 1, table[k].abbreviation, table[k].fullForm))

RECURSIVE ExpandAnywhereFrom(_, _, _)
ExpandAnywhereFrom(table, k, text) ==
    IF k > Len(table) THEN text
    ELSE ExpandAnywhereFrom(table, k + 1,
                            ReplaceAnywhere(text, 1, table[k].abbreviation,
                                            table[k].fullForm))

expandAbbreviations_Anywhere(text) == ExpandAnywhereFrom(medicalAbbreviations, 1, text)

expandAbbreviations(text) == ExpandFrom(medicalAbbreviations, 1, text)

(* Texts the functions are applied to *)

\* length of the texts spelled from the alphabet
MaxLen == 3
\* words in a prescription line
MaxWords == 2

Alphabet == {"<", ">", "'", "\"", "&", " ", "a"}

RECURSIVE TextsOfLength(_)
TextsOfLength(n) ==
    IF n = 0 THEN {<<>>}
    ELSE {<<c>> \o text : c \in Alphabet, text \in TextsOfLength(n - 1)}

SpelledTexts == UNION {TextsOfLength(n) : n \in 0..MaxLen}

Str_bid == <<"b", "i", "d">>
Str_BID == <<"B", "I", "D">>
Str_bidding == <<"b", "i", "d", "d", "i", "n", "g">>
Str_mg == <<"m", "g">>
Str_5mg == <<"5", "m", "g">>
Str_po == <<"p", "o">>
Str_Take1Tablet == <<"T", "a", "k", "e", " ", "1", " ", "t", "a", "b", "l", "e", "t">>

LineWords == {Str_bid, Str_BID, Str_bidding, Str_mg, Str_5mg, Str_po, Str_Take1Tablet}

Separators == {<<" ">>, <<"-">>, <<"_">>, <<",", " ">>}

RECURSIVE LinesOfWords(_)
LinesOfWords(n) ==
    IF n = 1 THEN LineWords
    ELSE {line \o sep \o word :
              line \in LinesOfWords(n - 1), sep \in Separators, word \in LineWords}

Lines == UNION {LinesOfWords(n) : n \in 1..MaxWords}

Str_Script == <<"<", "S", "c", "r", "i", "p", "t", ">", "x">>
Str_JavaScript == <<"j", "a", "v", "a", "s", "c", "r", "i", "p", "t", ":", "x">>
Str_DataUri == <<"d", "a", "t", "a", ":", "t", "e", "x", "t", "/", "h", "t", "m", "l">>

\* texts around the length of the warning, and texts with each suspicious
\* pattern
PickedTexts ==
    {Str_TakePara, Str_TakePills, Str_OnClick, Str_Script, Str_JavaScript,
     Str_DataUri, Str_BoldIbuTID}

TextInputs ==
    NonStrings \cup {Str(text) : text \in SpelledTexts \cup Lines \cup PickedTexts}

\* the bounds validateTextInput is called with
MaxLengths == {MaxLen - 1, ShortTextLength, DefaultMaxLength}

SanitizeInput ==
    /\ last = NoCall
    /\ last' = Call("sanitizeInput", input, TRUE, Item(sanitizeInputOf(input)))
    /\ UNCHANGED <<store, nextId, now, input, client, db, clients, pc>>

ValidateTextInput ==
    \E maxLength \in MaxLengths :
      /\ last = NoCall
      /\ last' = Call("validateTextInput", [text |-> input, maxLength |-> maxLength],
                      TRUE, Item(validateTextInputOf(input, maxLength)))
      /\ UNCHANGED <<store, nextId, now, input, client, db, clients, pc>>

\* expandAbbreviations is given a string (the simplifier's text)
ExpandAbbreviations ==
    /\ last = NoCall
    /\ input.typeof = "string"
    /\ last' = Call("expandAbbreviations", input, TRUE,
                    Item(expandAbbreviations(input.value)))
    /\ UNCHANGED <<store, nextId, now, input, client, db, clients, pc>>

InitText ==
    /\ store = <<>>
    /\ nextId = 1
    /\ now = 0
    /\ last = NoCall
    /\ input \in TextInputs
    /\ client = 0
    /\ db = 0
    /\ clients = <<>>
    /\ pc = <<>>

NextText ==
    \/ Resume
    \/ SanitizeInput
    \/ ValidateTextInput
    \/ ExpandAbbreviations

SpecText == InitText /\ [][NextText]_vars

----------------------------------------------------------------------------
(* Properties of the store operations *)

\* some stored record has this id
HasRecord(coll, id) ==
    \E i \in DOMAIN coll : ObjectIdToString(coll[i]._id) = id

\* the id was handed out to an inserted document
Issued(id) == \E n \in 1..(nextId - 1) : id = NewObjectId(n)

Succeeded(call, op) == call.op = op /\ call.out.kind = "item"

\* C1: the record addHistory returns has a non-empty id, and getHistoryById
\* with that id, called right after, returns an equal record (id, texts,
\* tags, prescription, processingStatus, createdAt and updatedAt)
C1_AddThenGetById ==
    Succeeded(last, "addHistory") =>
        /\ last.out.value.id # <<>>
        /\ LET got == getHistoryById(store, last.out.value.id, TRUE)
           IN /\ got.kind = "item"
              /\ got.value = last.out.value

\* a second record was added with the clock advancing between the two
\* readings addHistory makes of it
C1_Witness ==
    /\ Succeeded(last, "addHistory")
    /\ Len(store) = 2
    /\ last.out.value.updatedAt > last.out.value.createdAt

\* C2: updateHistory leaves the _id and the createdAt of every stored
\* record as they were, whatever keys the patch holds
C2_UpdateKeepsIdAndCreatedAt ==
    [][last'.op = "updateHistory" =>
          /\ Len(store') = Len(store)
          /\ \A i \in DOMAIN store :
               /\ store'[i]._id = store[i]._id
               /\ store'[i].createdAt = store[i].createdAt]_vars

\* C3: updateHistory(id, {}) on an existing record sets its updatedAt to the
\* time of the call and changes nothing else, in that record or any other
C3_EmptyPatchRefreshesUpdatedAt ==
    [][(Succeeded(last', "updateHistory") /\ DOMAIN last'.args.updates = {}) =>
          \E i \in {IndexOf(store, ObjectId(last'.args.id))} :
             /\ i # 0
             /\ Len(store') = Len(store)
             /\ \A j \in DOMAIN store : j # i => store'[j] = store[j]
             /\ store'[i].updatedAt = now
             /\ Without(store'[i], {"updatedAt"}) = Without(store[i], {"updatedAt"})
             /\ last'.out.value = ToHistoryItem(store'[i])]_vars

\* an empty patch was applied to a record later than its creation
C3_Witness ==
    /\ Succeeded(last, "updateHistory")
    /\ DOMAIN last.args.updates = {}
    /\ last.out.value.updatedAt > last.out.value.createdAt

\* fields a patch cannot set (C2 is about createdAt)
ProtectedKeys == {"id", "_id", "createdAt", "updatedAt"}

\* C4: a successful updateHistory gives every field of the patch (other than
\* id, createdAt, updatedAt) the patch's value, sets updatedAt to the time of
\* the call, keeps every field that is not in the patch, and changes no
\* other record
C4_UpdateMerges ==
    [][Succeeded(last', "updateHistory") =>
          \E i \in {IndexOf(store, ObjectId(last'.args.id))},
             patch \in {last'.args.updates} :
             /\ i # 0
             /\ Len(store') = Len(store)
             /\ \A j \in DOMAIN store : j # i => store'[j] = store[j]
             /\ \A k \in DOMAIN patch \ ProtectedKeys :
                  Has(store'[i], k) /\ store'[i][k] = patch[k]
             /\ store'[i].updatedAt = now
             /\ \A k \in DOMAIN store[i] \ (DOMAIN patch \cup {"updatedAt"}) :
                  Has(store'[i], k) /\ store'[i][k] = store[i][k]
             /\ DOMAIN store'[i] \subseteq DOMAIN store[i] \cup DOMAIN patch
             /\ last'.out.value = ToHistoryItem(store'[i])]_vars

\* a patch of tags and processingStatus was merged into a record that holds
\* a prescription, while another record is stored
C4_Witness ==
    /\ Succeeded(last, "updateHistory")
    /\ Has(last.args.updates, "tags")
    /\ Has(last.out.value, "prescription")
    /\ last.out.value.processingStatus = "failed"
    /\ Len(store) = 2

\* C5: a PUT whose id no stored record has is answered 404 and leaves the
\* collection as it was, whether or not the id is a well-formed ObjectId
C5_PutUnknownIdIs404 ==
    [][(/\ last'.op = "PUT"
        /\ last'.dbOk
        /\ Truthy(last'.args, "id")
        /\ ~HasRecord(store, sanitizeInput(last'.args.id))) =>
          /\ last'.out.status = 404
          /\ store' = store]_vars

\* C6: deleteHistory returns true exactly when a record with the id was
\* stored, and then the record is gone; for any other id it returns false
\* and does not throw
C6_DeleteReturnsWhetherRemoved ==
    [][(last'.op = "deleteHistory" /\ last'.dbOk) =>
          /\ last'.out.kind = "bool"
          /\ last'.out.value = HasRecord(store, last'.args.id)
          /\ ~HasRecord(store', last'.args.id)]_vars

NotFound(coll, id) == getHistoryById(coll, id, TRUE).kind = "null"

\* the ids handed out to inserted documents, in the order of insertion
IssuedIds == [n \in 1..MaxIds |-> NewObjectId(n)]

\* C7: when deleteHistory(id) returns true, getHistoryById(id) finds nothing,
\* and an id that was handed out and is no longer found is never found
\* again, whatever operation comes next
C7_HardDelete ==
    [][/\ (/\ last'.op = "deleteHistory"
           /\ last'.out.kind = "bool"
           /\ last'.out.value) => NotFound(store', last'.args.id)
       /\ store' # store =>
            \A n \in 1..(nextId - 1) :
              NotFound(store, IssuedIds[n]) => NotFound(store', IssuedIds[n])]_vars

\* a record was added after another had been deleted
C7_Witness ==
    /\ Succeeded(last, "addHistory")
    /\ \E id \in StoreIds : Issued(id) /\ NotFound(store, id)

\* C8: getHistoryById returns the record that has the id when there is one
\* and null otherwise, also for an id that is no ObjectId; GET ?id= answers
\* 200 with the record, or 404, and never 500
C8_GetByIdNullWhenAbsentOrMalformed ==
    /\ \A id \in HttpIds :
         LET got == getHistoryById(store, id, TRUE)
         IN IF HasRecord(store, id)
            THEN got.kind = "item" /\ got.value.id = id
            ELSE got.kind = "null"
    /\ (last.op = "GET" /\ Truthy(last.args, "id")) =>
         LET id == sanitizeInput(last.args.id)
         IN IF last.dbOk /\ HasRecord(store, id)
            THEN last.out.status = 200 /\ last.out.body.data.id = id
            ELSE last.out.status = 404

\* GET ?id= with an id that is no ObjectId was answered 404 while records
\* are stored
C8_Witness ==
    /\ last.op = "GET"
    /\ Truthy(last.args, "id")
    /\ ~IsObjectIdString(sanitizeInput(last.args.id))
    /\ last.dbOk
    /\ store # <<>>
    /\ last.out.status = 404

\* C9: with records stored and the database answering, GET with a q that is
\* empty or only whitespace is answered 400
C9_BlankQueryRejected ==
    (/\ last.op = "GET"
     /\ last.dbOk
     /\ Has(last.args, "q")
     /\ Trim(last.args.q) = <<>>
     /\ store # <<>>) => last.out.status = 400

IsNewestFirst(items) ==
    \A i, j \in DOMAIN items : i < j => items[i].createdAt >= items[j].createdAt

\* C10: searchHistory(query, limit) returns at most limit records, newest
\* first, each of them matching the query, none of them twice
C10_SearchResult ==
    last.op = "searchHistory" =>
        LET found == last.out.value
        IN /\ Len(found) <= last.args.limit
           /\ IsNewestFirst(found)
           /\ \A i \in DOMAIN found : MatchesFilter(found[i], last.args.query)
           /\ \A i, j \in DOMAIN found : found[i].id = found[j].id => i = j

----------------------------------------------------------------------------
(* Properties of listing, statistics, backup and restore *)

\* a record of the collection, as the store operations return it
IsStoredRecord(coll, item) ==
    \E i \in DOMAIN coll : ToHistoryItem(coll[i]) = item

\* C11: with the database answering, getHistory(limit, skip) returns the
\* records at positions skip .. skip+limit-1 of the collection ordered
\* newest-first: at most limit of them, stored records each, in descending
\* createdAt order, none of them twice, and none newer is left out after the
\* first skip
C11_ListWindow ==
    (last.op = "getHistory" /\ last.dbOk) =>
        LET found == last.out.value
            limit == last.args.limit
            skip == last.args.skip
        IN /\ Len(found) = Max(0, Min(limit, Len(store) - skip))
           /\ IsNewestFirst(found)
           /\ \A i \in DOMAIN found : IsStoredRecord(store, found[i])
           /\ \A i, j \in DOMAIN found : found[i].id = found[j].id => i = j
           /\ found = SubSeq(ToHistoryItems(SortNewestFirst(store)),
                             skip + 1, Min(skip + limit, Len(store)))

ReadOps ==
    {"getHistoryById", "getHistory", "searchHistory", "getHistoryStats",
     "backupHistory"}

\* C12: a call of getHistoryById, getHistory, searchHistory, getHistoryStats
\* or backupHistory, answered or failed, leaves the collection as it was
C12_ReadsLeaveStoreUnchanged ==
    [][last'.op \in ReadOps => store' = store]_vars

\* a backup was taken of a collection of two records
C12_Witness ==
    /\ last.op = "backupHistory"
    /\ last.out.kind = "list"
    /\ Len(last.out.value) = 2
    /\ Len(store) = 2

CountStatus(coll, status) ==
    Cardinality({i \in DOMAIN coll : coll[i].processingStatus = status})

\* C13: with the database answering, getHistoryStats returns total equal to
\* the number of stored records and completed, failed and pending equal to
\* the number of stored records of that status, and all zeros for an empty
\* collection
C13_StatsCountRecords ==
    (last.op = "getHistoryStats" /\ last.dbOk) =>
        LET stats == last.out.value
        IN /\ stats.total = Len(store)
           /\ stats.completed = CountStatus(store, "completed")
           /\ stats.failed = CountStatus(store, "failed")
           /\ stats.pending = CountStatus(store, "pending")
           /\ store = <<>> => stats = ZeroStats

\* the ids of the documents of a collection
IdsOf(coll) == {coll[i]._id : i \in DOMAIN coll}

\* C16: no two stored records share an id; a record that stays stored keeps
\* its id, under updateHistory whatever id the patch holds; and a record that
\* is inserted, by addHistory or restoreHistory, gets an id generated by the
\* store
C16_IdsUniqueAndAssignedByStore ==
    [][/\ \A i, j \in DOMAIN store' : store'[i]._id = store'[j]._id => i = j
       /\ \A id \in IdsOf(store') \ IdsOf(store) :
            \E n \in nextId..(nextId' - 1) : id = IssuedIds[n]
       /\ last'.op = "updateHistory" =>
            /\ Len(store') = Len(store)
            /\ \A i \in DOMAIN store : store'[i]._id = store[i]._id
       /\ last'.op \in {"addHistory", "restoreHistory"} =>
            SubSeq(store', 1, Len(store)) = store]_vars

\* a record was restored from a backup while the record it was taken from,
\* which has the id the backup carries, is still stored
C16_Witness ==
    /\ last.op = "restoreHistory"
    /\ last.out.value
    /\ Len(store) = 2
    /\ HasRecord(store, last.args.backupData[1].id)

\* C19: restoreHistory appends to the collection, leaving the records that
\* were there as they were; each inserted document is the supplied record
\* without its id, under an id that is not the supplied one; the documents
\* written before a failure stay inserted; and it returns true only when
\* every supplied record was inserted (and then, for a batch that is not
\* empty, it does), false otherwise
C19_RestoreStripsIdsNoRollback ==
    [][last'.op = "restoreHistory" =>
         \E batch \in {last'.args.backupData}, n \in {Len(store') - Len(store)} :
           /\ n \in 0..Len(batch)
           /\ SubSeq(store', 1, Len(store)) = store
           /\ \A k \in 1..n :
                \E d \in {store'[Len(store) + k]} :
                  /\ Without(d, {"_id"}) = Without(batch[k], {"id"})
                  /\ ObjectIdToString(d._id) # batch[k].id
                  /\ d._id \notin IdsOf(store)
           /\ (last'.dbOk /\ batch # <<>>) => n = Min(last'.args.written, Len(batch))
           /\ last'.out.kind = "bool"
           /\ last'.out.value => n = Len(batch)
           /\ n # Len(batch) => ~last'.out.value
           /\ (n = Len(batch) /\ batch # <<>>) => last'.out.value]_vars

\* a batch of two was restored in part: the first record is stored, the
\* call returned false
C19_Witness ==
    /\ last.op = "restoreHistory"
    /\ Len(last.args.backupData) = 2
    /\ last.args.written = 1
    /\ ~last.out.value
    /\ Len(store) = 1
    /\ Without(store[1], {"_id"}) = Without(last.args.backupData[1], {"id"})

StoreOps ==
    {"addHistory", "getHistoryById", "updateHistory", "deleteHistory",
     "getHistory", "searchHistory", "getHistoryStats"}

\* C20: a store operation whose database call fails throws: it does not
\* return a result
C20_FailureSurfaces ==
    (last.op \in StoreOps /\ ~last.dbOk) => last.out.kind = "throw"

----------------------------------------------------------------------------
(* Properties of the /api/history handlers *)

\* a body POST accepts: both texts present, and valid once sanitized
ValidPost(body) ==
    /\ Truthy(body, "originalText")
    /\ Truthy(body, "simplifiedText")
    /\ validateTextInput(sanitizeInput(body.originalText), DefaultMaxLength).isValid
    /\ validateTextInput(sanitizeInput(body.simplifiedText), DefaultMaxLength).isValid

\* C14: with the database answering, a POST with valid originalText and
\* simplifiedText is answered 201 with a record that has a non-empty id,
\* processingStatus "completed" and createdAt equal to updatedAt
C14_PostAnswers201 ==
    (last.op = "POST" /\ last.dbOk /\ ValidPost(last.args)) =>
        /\ last.out.status = 201
        /\ last.out.body.success
        /\ last.out.body.data.id # <<>>
        /\ last.out.body.data.processingStatus = "completed"
        /\ last.out.body.data.createdAt = last.out.body.data.updatedAt

\* C15: with the database answering, a DELETE whose id no stored record has
\* is answered 404 with a body whose success field is false, and leaves the
\* collection as it was
C15_DeleteUnknownIs404 ==
    [][(/\ last'.op = "DELETE"
        /\ last'.dbOk
        /\ Truthy(last'.args, "id")
        /\ ~HasRecord(store, sanitizeInput(last'.args.id))) =>
          /\ last'.out.status = 404
          /\ Has(last'.out.body, "success")
          /\ last'.out.body.success = FALSE
          /\ store' = store]_vars

ProcessingStatuses == {"pending", "completed", "failed"}

\* C17: every stored record's processingStatus is pending, completed or
\* failed
C17_ProcessingStatusInEnum ==
    \A i \in DOMAIN store : store[i].processingStatus \in ProcessingStatuses

\* the text is what sanitizeInput leaves: no tag, none of < > ' " &
IsSanitized(text) ==
    /\ \A i \in DOMAIN text : text[i] \notin DangerousChars
    /\ RemoveTags(text) = text

\* C18: every stored record's originalText and simplifiedText are non-empty
\* and sanitized
C18_StoredTextsSanitized ==
    \A i \in DOMAIN store :
        /\ store[i].originalText # <<>>
        /\ store[i].simplifiedText # <<>>
        /\ IsSanitized(store[i].originalText)
        /\ IsSanitized(store[i].simplifiedText)

----------------------------------------------------------------------------
(* Properties of the shared connection *)

\* closeConnection has got as far as closing a client
CloseRan ==
    \/ \E p \in DOMAIN pc : pc[p].op = "closeConnection" /\ pc[p].at = "close"
    \/ \E c \in DOMAIN clients : clients[c] \in {"closed", "closeFailed"}

Connected == {c \in DOMAIN clients : clients[c] = "connected"}

\* C21: until closeConnection runs, at most one client is ever created and
\* connected, whatever the interleaving of the connectToDatabase calls
\* (overlapping first calls, calls after a failed attempt), and every call
\* that succeeds returns that one client's database handle.
C21_ConnectionIsSingleton ==
    ~CloseRan =>
        /\ Cardinality(Connected) <= 1
        /\ \A p \in DOMAIN pc :
               (pc[p].op = "connectToDatabase" /\ pc[p].out.kind = "item")
                   => Connected = {pc[p].out.value}

----------------------------------------------------------------------------
(* Properties of overlapping requests *)

\* request p has run op on the record id and has its answer
Ran(p, op, id) ==
    pc[p].op = op /\ pc[p].at = "done" /\ pc[p].arg.id = id

\* the item is the whole record with the patch applied
IsUpdatedRecord(item, id, updates) ==
    /\ item.id = id
    /\ \A k \in {"originalText", "simplifiedText", "createdAt", "updatedAt"} :
           Has(item, k)
    /\ \A k \in DOMAIN updates \ ProtectedKeys : item[k] = updates[k]

\* C22: when an update and a delete of one record overlap, the outcome is
\* that of one of the two serial orders: the update is applied and the
\* record is then removed, or the record is removed first and the update
\* changes nothing and reports not-found (or the failure of its database
\* call); either way the record is absent afterwards, and the update never
\* recreates it or leaves a partial document.
C22_DeleteUpdateRace ==
    /\ [](\A p, q \in DOMAIN pc : \A id \in RaceIds :
            (Ran(p, "updateHistory", id) /\ Ran(q, "deleteHistory", id)
             /\ pc[q].out = Bool(TRUE))
                => /\ ~HasRecord(store, id)
                   /\ \/ pc[p].out \in {Null,
                                       Thrown("Failed to update prescription in database")}
                      \/ /\ pc[p].out.kind = "item"
                         /\ IsUpdatedRecord(pc[p].out.value, id, pc[p].arg.updates))
    /\ [][\A p \in DOMAIN pc :
            (pc[p].op = "updateHistory" /\ pc[p].at = "findOneAndUpdate"
             /\ pc'[p].at = "done" /\ ~HasRecord(store, pc[p].arg.id))
                => /\ store' = store
                   /\ pc'[p].out \in {Null,
                                      Thrown("Failed to update prescription in database")}]_vars

\* the delete has removed the record and the update, sent for the same
\* record, has found nothing
C22_Witness ==
    \E p, q \in DOMAIN pc : \E id \in RaceIds :
        /\ Ran(p, "updateHistory", id) /\ pc[p].out = Null
        /\ Ran(q, "deleteHistory", id) /\ pc[q].out = Bool(TRUE)

----------------------------------------------------------------------------
(* Further properties of the /api/history handlers *)

\* the text, sanitized as the handlers sanitize it, does not pass
\* validateTextInput
FailsValidation(text, maxLength) ==
    ~validateTextInput(sanitizeInput(text), maxLength).isValid

\* the request carries a text field that fails validation
HasInvalidText(call) ==
    \/ /\ call.op \in {"POST", "PUT"}
       /\ \E k \in {"originalText", "simplifiedText"} :
              /\ Truthy(call.args, k)
              /\ FailsValidation(call.args[k], DefaultMaxLength)
    \/ /\ call.op = "GET"
       /\ Truthy(call.args, "q")
       /\ ~Truthy(call.args, "stats") /\ ~Truthy(call.args, "id")
       /\ FailsValidation(call.args.q, QueryMaxLength)

\* C23: in POST, PUT and GET with q, validation comes before any store call:
\* a request with a text field that fails validation (empty after
\* sanitization, too long, or suspicious) is answered 400 and the store is
\* not called for it, so the answer does not depend on the database and the
\* collection is unchanged.
C23_ValidationBeforeStore ==
    [][(last' # last /\ HasInvalidText(last'))
           => (last'.out.status = 400 /\ store' = store)]_vars

----------------------------------------------------------------------------
(* Properties of the error bodies and of /api/tts *)

CarriesStack(body) == Has(body, "details") /\ Has(body.details, "stack")

\* C24: outside development mode no error response carries a stack trace:
\* with NODE_ENV other than "development" the body of every failure has no
\* details.stack, and a failure that differs from it only in its stack
\* trace has the same body apart from the timestamp.
C24_NoStackOutsideDevelopment ==
    (/\ last.op = "POST /api/tts"
     /\ last.out.status >= 400
     /\ last.args.NODE_ENV # "development")
        => /\ ~CarriesStack(last.out.body)
           /\ Has(last.args.request, "syntaxError") =>
                \A e \in SyntaxErrors :
                    e.message = last.args.request.syntaxError.message =>
                        Without(handleAPIError(e, last.args.NODE_ENV, 0),
                                {"timestamp"})
                            = Without(last.out.body, {"timestamp"})

\* a request that is not JSON has been answered 500 in production
C24_Witness ==
    /\ last.op = "POST /api/tts"
    /\ last.out.status = 500
    /\ last.args.NODE_ENV = "production"
    /\ last.args.request.syntaxError.stack # ""
    /\ last.out.body.code = "INTERNAL_ERROR"

\* the request was answered with a playback configuration
TtsConfigured == last.op = "POST /api/tts" /\ last.out.status = 200

\* C30: POST /api/tts clamps the speed: the speed of the configuration is
\* between 0.5 and 2.0, it is the supplied speed when that is within the
\* range and the nearest bound when it is not (0.5 for a supplied 0 or
\* negative speed), and it is 1.0 when no speed is supplied.
C30_SpeedClamped ==
    TtsConfigured =>
        \E supplied \in {Has(last.args.request.json, "speed")} :
        \E speed \in {last.out.body.data.speed} :
            /\ MinSpeed <= speed /\ speed <= MaxSpeed
            /\ ~supplied => speed = DefaultSpeed
            /\ supplied =>
                 \E given \in {last.args.request.json.speed} :
                     /\ (MinSpeed <= given /\ given <= MaxSpeed) => speed = given
                     /\ given < MinSpeed => speed = MinSpeed
                     /\ given > MaxSpeed => speed = MaxSpeed

----------------------------------------------------------------------------
(* Properties of the health check *)

\* C25: GET /healthcheck answers 503 with status unhealthy whenever the
\* database round-trip fails, be it the connection attempt or the
\* statistics query on a connection that was already cached, and answers
\* 200 only when the database has answered and the file system check has
\* passed.  (dbOk of the call: the connection was obtained and the
\* statistics query was answered.)
C25_HealthcheckReports503 ==
    last.op = "GET /api/healthcheck" =>
        /\ ~last.dbOk =>
               /\ last.out.status = 503
               /\ last.out.body.data.status = "unhealthy"
        /\ last.out.status = 200 => (last.dbOk /\ last.args.fsOk)

----------------------------------------------------------------------------
(* Properties of the text utilities *)

\* C26: for every input sanitizeInput returns a string without leading or
\* trailing whitespace and without any of < > ' " & (hence without a tag);
\* an input that is not a string, or is empty, gives the empty string; and
\* sanitizing the result again changes nothing.
C26_SanitizeIsCleanAndIdempotent ==
    last.op = "sanitizeInput" =>
        \E out \in {last.out.value} :
            /\ out # <<>> => (out[1] \notin Whitespace /\ out[Len(out)] \notin Whitespace)
            /\ \A i \in DOMAIN out : out[i] \notin DangerousChars
            /\ ~IsText(last.args) => out = <<>>
            /\ sanitizeInputOf(Str(out)) = out

\* a text with something to strip has been sanitized to a shorter text
C26_Witness ==
    /\ last.op = "sanitizeInput"
    /\ IsText(last.args)
    /\ \E i \in DOMAIN last.args.value : last.args.value[i] \in DangerousChars
    /\ last.out.value # <<>>
    /\ Len(last.out.value) < Len(last.args.value)

\* C27: validateTextInput always returns isValid, an errors list and a
\* warnings list; isValid is true exactly when errors is empty; errors is
\* non-empty exactly when the text is empty or not a string, longer than
\* maxLength (a text of exactly maxLength characters passes) or suspicious;
\* and a text shorter than 10 characters gets a warning, which does not
\* affect isValid.
C27_ValidationResult ==
    last.op = "validateTextInput" =>
        \E r \in {last.out.value} :
        \E text \in {last.args.text} :
            /\ DOMAIN r = {"isValid", "errors", "warnings"}
            /\ r.isValid <=> r.errors = <<>>
            /\ r.errors # <<>> <=>
                   \/ ~IsText(text)
                   \/ Len(text.value) > last.args.maxLength
                   \/ Suspicious(text.value)
            /\ (text.typeof = "string" /\ Len(text.value) < ShortTextLength)
                   => r.warnings # <<>>

\* the end of the token (the run of word characters) that starts at i
RECURSIVE TokenEnd(_, _)
TokenEnd(text, i) ==
    IF i < Len(text) /\ text[i + 1] \in WordChars THEN TokenEnd(text, i + 1) ELSE i

\* what the table says a token stands for: its full form if the token is an
\* abbreviation, in whatever case, and the token itself if it is not
FullFormOf(token) ==
    IF \E k \in DOMAIN medicalAbbreviations :
           Lower(medicalAbbreviations[k].abbreviation) = Lower(token)
    THEN medicalAbbreviations[CHOOSE k \in DOMAIN medicalAbbreviations :
             Lower(medicalAbbreviations[k].abbreviation) = Lower(token)].fullForm
    ELSE token

\* the text with each of its tokens replaced by what it stands for
RECURSIVE TokenWise(_, _)
TokenWise(text, i) ==
    IF i > Len(text) THEN <<>>
    ELSE IF text[i] \in WordChars
         THEN FullFormOf(SubSeq(text, i, TokenEnd(text, i)))
                  \o TokenWise(text, TokenEnd(text, i) + 1)
         ELSE <<text[i]>> \o TokenWise(text, i + 1)

Reverse(table) == [k \in DOMAIN table |-> table[Len(table) + 1 - k]]

Rotate(table, n) == SubSeq(table, n + 1, Len(table)) \o SubSeq(table, 1, n)

\* the table backwards (every two entries change places), and the table
\* started from its second entry and from its middle
Orders ==
    {Reverse(medicalAbbreviations)}
    \cup {Rotate(medicalAbbreviations, n) : n \in {1, Len(medicalAbbreviations) \div 2}}

\* C28: expandAbbreviations replaces every whole-word occurrence of every
\* known abbreviation, in whatever case, by its full form: no token of the
\* result is a known abbreviation, a token that only contains an
\* abbreviation is left as it was, and the result is the same in whatever
\* order the table is gone through.
C28_ExpandsWholeWords ==
    last.op = "expandAbbreviations" =>
        \E text \in {last.args.value} :
        \E out \in {last.out.value} :
            /\ \A k \in DOMAIN medicalAbbreviations : \A i \in DOMAIN out :
                   ~MatchesWord(out, i, medicalAbbreviations[k].abbreviation)
            /\ out = TokenWise(text, 1)
            /\ \A order \in Orders : ExpandFrom(order, 1, text) = out

\* "bid" alone has become "twice a day" next to a "bidding" that has stayed
C28_Witness ==
    /\ last.op = "expandAbbreviations"
    /\ \E i \in DOMAIN last.args.value : MatchesWord(last.args.value, i, Str_bid)
    /\ \E i \in DOMAIN last.args.value : MatchesWord(last.args.value, i, Str_bidding)
    /\ \E i \in DOMAIN last.out.value :
           MatchesWord(last.out.value, i, medicalAbbreviations[1].fullForm)
    /\ \E i \in DOMAIN last.out.value : MatchesWord(last.out.value, i, Str_bidding)

----------------------------------------------------------------------------
(* Properties of the search pages *)

\* the request is a search that was answered with a page
SearchAnswered ==
    /\ last.op = "GET"
    /\ Truthy(last.args, "q")
    /\ last.dbOk
    /\ last.out.status = 200
    /\ IntParam(last.args, "page", DefaultPage) >= 1
    /\ IntParam(last.args, "limit", DefaultLimit) >= 1

\* C29: GET /history?q=..&page=p&limit=n returns the p-th page of the
\* matching records, newest first (matches (p-1)*n+1 .. p*n), total is the
\* number of matching records and hasNext is true exactly when there are
\* matches beyond page p; so page 2 is not empty when more than n match.
C29_SearchPages ==
    SearchAnswered =>
        \E page \in {IntParam(last.args, "page", DefaultPage)} :
        \E limit \in {IntParam(last.args, "limit", DefaultLimit)} :
        \E matches \in {searchHistory(store, sanitizeInput(last.args.q), 0, TRUE).value} :
            /\ last.out.body.data.items
                   = Slice(matches, (page - 1) * limit, page * limit)
            /\ last.out.body.data.pagination.total = Len(matches)
            /\ last.out.body.data.pagination.hasNext <=> Len(matches) > page * limit

====
